---- MODULE Spec2Model ----
(***************************************************************************)
(* A model of src/scripts/smuggler.py: the HTTP desync scanner.            *)
(*                                                                         *)
(* The program is single threaded.  main() walks the list of targets; for  *)
(* each one scan_target() parses the address, establishes a latency        *)
(* baseline, runs the CL.TE classifier, writes the CL.TE exploit file,     *)
(* runs the TE.CL classifier, writes the TE.CL exploit file and returns a  *)
(* result dict that main() appends to all_results.  print_summary() ends   *)
(* the run.                                                                *)
(*                                                                         *)
(* Abstractions.  Latencies are counted in whole seconds, the waits of     *)
(* time.sleep in tenths of a second.  Means are exact rationals [n, d] and *)
(* the standard deviation is kept as the rational under its square root,   *)
(* so every comparison of the classifier is decided exactly with integer   *)
(* arithmetic.  A Python None is the empty sequence None and a value v     *)
(* that may be None is <<v>>.  The payloads are sequences of characters,   *)
(* built as the builders build them.  The text of the details entries is   *)
(* kept as tagged tuples without the formatted timing ratio.               *)
(***************************************************************************)
EXTENDS Integers, Sequences, FiniteSets, TLC

\* ---------------------------------------------------------------- bounds
\* The slowest answer, in seconds, the modelled network gives to a request
\* that is answered.
MaxLat == 9
\* The longest list of targets of a run.
MaxTargets == 2
\* The slowest answer, in seconds, to a request of the baseline checked on
\* its own.
MaxSample == 3
\* The sockets a sequence of request attempts may leave unclosed.
MaxUnclosed == 2
\* The characters of the longest smuggled path the builders are called with.
LongPathLen == 167

\* ------------------------------------------------------ program constants
Timeout == 10
BaselineAttempts == 5
MinBaselineSamples == 3
ProbeRounds == 3
MinProbeSamples == 2
HighTimeouts == 2
StdevFactor == 2
RatioFactor == 2

None == <<>>
\* A None where the program holds a string otherwise.
NoStr == "None"
Some(v) == <<v>>
Get(o) == o[1]

RECURSIVE Sum(_)
Sum(s) == IF s = <<>> THEN 0 ELSE Head(s) + Sum(Tail(s))

RECURSIVE SumSq(_)
SumSq(s) == IF s = <<>> THEN 0 ELSE Head(s) * Head(s) + SumSq(Tail(s))

\* statistics.mean: the exact rational n/d.
Mean(s) == [n |-> Sum(s), d |-> Len(s)]

\* Stdev dividing by N, the standard deviation of a population.
StdevPopulation(s) ==
    [rn |-> Len(s) * SumSq(s) - Sum(s) * Sum(s), rd |-> Len(s) * Len(s)]

\* statistics.stdev, the sample standard deviation sqrt(rn/rd):
\* rn/rd = (N*sum(x^2) - sum(x)^2) / (N*(N-1)).
Stdev(s) ==
    [rn |-> Len(s) * SumSq(s) - Sum(s) * Sum(s), rd |-> Len(s) * (Len(s) - 1)]

ZeroStdev == [rn |-> 0, rd |-> 1]

\* a > m + k*sqrt(rn/rd) for rationals a, m with positive denominators.
ExceedsByStdev(a, m, sd, k) ==
    LET D == a.n * m.d - m.n * a.d
        E == a.d * m.d
    IN  D > 0 /\ D * D * sd.rd > k * k * E * E * sd.rn

\* a < m + k*sqrt(rn/rd).
BelowByStdev(a, m, sd, k) ==
    LET D == a.n * m.d - m.n * a.d
        E == a.d * m.d
    IN  D < 0 \/ D * D * sd.rd < k * k * E * E * sd.rn

\* a > m * k.
ExceedsTimes(a, m, k) == a.n * m.d > k * m.n * a.d

\* ------------------------------------------------ the transport connection
ConnectKinds == {"ok", "timeout", "refused", "dns", "tls"}
SendKinds == {"ok", "timeout", "reset"}
RecvKinds == {"data", "timeout", "closed", "reset"}
CloseKinds == {"ok", "fault"}
Outcomes == {"OK", "TIMEOUT", "REFUSED", "ERROR"}

\* What the network does to one request attempt, stage by stage, and the time
\* from the send to the end of the receive.
AllScenarios(L) ==
    [connect : ConnectKinds, send : SendKinds, recv : RecvKinds,
     close : CloseKinds, elapsed : L]

\* The scenarios of the scans: one for each result an attempt can have (the
\* answer in time, no answer, the refused connection, the failed lookup).
\* The estimator and the classifiers see of an attempt only its result.
Scenarios(L) ==
    {sc \in AllScenarios(L) :
        /\ sc.connect \in {"ok", "refused", "dns"}
        /\ sc.send = "ok"
        /\ sc.recv \in {"data", "timeout"}
        /\ sc.close = "ok"
        /\ sc.connect # "ok" => sc.recv = "data" /\ sc.elapsed = 1}

\* The exception HTTPConnection.connect raises, "none" when it returns.
Connect(sc) ==
    CASE sc.connect = "timeout" -> "socket.timeout"
      [] sc.connect = "refused" -> "ConnectionRefusedError"
      [] sc.connect = "dns" -> "socket.gaierror"
      [] sc.connect = "tls" -> "ssl.SSLError"
      [] OTHER -> "none"

\* The exception HTTPConnection.send raises, "none" when it returns.
Send(sc) ==
    CASE sc.send = "timeout" -> "socket.timeout"
      [] sc.send = "reset" -> "ConnectionResetError"
      [] OTHER -> "none"

\* HTTPConnection.recv: the bytes read ("data"), or None when nothing was
\* read: the read timed out, the peer closed at once, or the read raised.
Recv(sc) == IF sc.recv = "data" THEN Some("data") ELSE None

\* HTTPConnection.close swallows every exception of sock.close.
Close(sc) == "none"

\* The classes caught by `except Exception`.
ExceptionClasses ==
    {"socket.timeout", "ConnectionRefusedError", "socket.gaierror",
     "ssl.SSLError", "ConnectionResetError", "OSError", "TypeError"}

HandleNoCatchAll(e, timeout) ==
    CASE e = "socket.timeout" ->
            [outcome |-> "TIMEOUT", elapsed |-> timeout, raised |-> "none"]
      [] e = "ConnectionRefusedError" ->
            [outcome |-> "REFUSED", elapsed |-> 0, raised |-> "none"]
      [] OTHER -> [outcome |-> "raised", elapsed |-> 0, raised |-> e]

\* The except clauses of test_payload.
Handle(e, timeout) ==
    CASE e = "socket.timeout" ->
            [outcome |-> "TIMEOUT", elapsed |-> timeout, raised |-> "none"]
      [] e = "ConnectionRefusedError" ->
            [outcome |-> "REFUSED", elapsed |-> 0, raised |-> "none"]
      [] e \in ExceptionClasses ->
            [outcome |-> "ERROR", elapsed |-> 0, raised |-> "none"]
      [] OTHER -> [outcome |-> "raised", elapsed |-> 0, raised |-> e]

\* test_payload: one request attempt on a connection of its own.  A target
\* without a host name makes sock.connect raise TypeError.
TestPayload(host, sc, timeout) ==
    IF host = NoStr THEN Handle("TypeError", timeout)
    ELSE IF Connect(sc) # "none" THEN Handle(Connect(sc), timeout)
    ELSE IF Send(sc) # "none" THEN Handle(Send(sc), timeout)
    ELSE LET response == Recv(sc)
         IN  IF Close(sc) # "none" THEN Handle(Close(sc), timeout)
             ELSE IF response = None
             THEN [outcome |-> "TIMEOUT", elapsed |-> sc.elapsed,
                   raised |-> "none"]
             ELSE [outcome |-> "OK", elapsed |-> sc.elapsed, raised |-> "none"]

\* ------------------------------------------------------- target addresses
\* An address as written: scheme ("" when none is written), host, port text
\* ("" when none is written) and path, a sequence of pieces (<<>> when empty).
BareHost == [scheme |-> "", host |-> "example.com", port |-> "", path |-> <<>>]
FullUrl ==
    [scheme |-> "http", host |-> "example.com", port |-> "8080",
     path |-> <<"/api">>]
BadPortUrl ==
    [scheme |-> "http", host |-> "example.com", port |-> "99999", path |-> <<>>]

UnderscoreHost ==
    [scheme |-> "", host |-> "example_com", port |-> "", path |-> <<>>]

Urls == {BareHost, FullUrl, BadPortUrl}
\* The addresses of the runs over several targets.
RunUrls == {BareHost, BadPortUrl}
\* The addresses of the runs that write files for hosts alike.
StoreUrls == {BareHost, FullUrl, UnderscoreHost}
\* The addresses the normalisation is checked on.
Addresses ==
    [scheme : {"", "http", "https"}, host : {"example.com", "example_com"},
     port : {"", "0", "8080", "99999"}, path : {<<>>, <<"/">>, <<"/api">>}]

\* int() of the port texts of the model.
PortNumber ==
    [p \in {"0", "8080", "99999"} |->
        CASE p = "0" -> 0 [] p = "8080" -> 8080 [] p = "99999" -> 99999]

\* urllib.parse.urlparse on the written form: the text before the first ':'
\* is the scheme; a netloc follows only after "//".
Urlparse(u) ==
    IF u.scheme # ""
    THEN [scheme |-> u.scheme, hostname |-> u.host, port |-> u.port,
          path |-> u.path]
    ELSE IF u.port # ""
    THEN [scheme |-> u.host, hostname |-> NoStr, port |-> "",
          path |-> <<u.port>> \o u.path]
    ELSE [scheme |-> "", hostname |-> NoStr, port |-> "",
          path |-> <<u.host>> \o u.path]

\* The port property of a parse result: None, the number, or ValueError for a
\* port out of range.
PortOf(parsed) ==
    IF parsed.port = "" THEN [raised |-> "none", value |-> None]
    ELSE IF PortNumber[parsed.port] > 65535
    THEN [raised |-> "ValueError", value |-> None]
    ELSE [raised |-> "none", value |-> Some(PortNumber[parsed.port])]

\* "https://" + url, for a url urlparse found no scheme in.
WithHttps(u) == [u EXCEPT !.scheme = "https"]

\* scan_target, the normalisation of the address.
Normalize(u) ==
    LET url == IF Urlparse(u).scheme = "" THEN WithHttps(u) ELSE u
        parsed == Urlparse(url)
        port == PortOf(parsed)
    IN  [raised |-> port.raised,
         url |-> url,
         host |-> parsed.hostname,
         port |-> IF port.value # None /\ Get(port.value) # 0
                  THEN Get(port.value)
                  ELSE IF parsed.scheme = "https" THEN 443 ELSE 80,
         endpoint |-> IF parsed.path = <<>> THEN <<"/">> ELSE parsed.path,
         use_ssl |-> parsed.scheme = "https"]

\* scan_target, the result dict as first built.
NewResults(t) ==
    [url |-> t.url, host |-> t.host, port |-> t.port, endpoint |-> t.endpoint,
     vulnerable |-> FALSE, vuln_type |-> NoStr, confidence |-> NoStr,
     details |-> <<>>]

\* ------------------------------------------------------ baseline estimator
\* EstablishBaseline with the test `len(timings) < 2`.
EstablishBaselineTwo(ts) ==
    IF Len(ts) < 2 THEN None
    ELSE Some([mean |-> Mean(ts),
               stdev |-> IF Len(ts) > 1 THEN Stdev(ts) ELSE ZeroStdev,
               timings |-> ts])

\* EstablishBaseline with the test `len(timings) <= 3`.
EstablishBaselineOverThree(ts) ==
    IF Len(ts) <= MinBaselineSamples THEN None
    ELSE Some([mean |-> Mean(ts),
               stdev |-> IF Len(ts) > 1 THEN Stdev(ts) ELSE ZeroStdev,
               timings |-> ts])

\* establish_baseline after its loop: None, or the baseline dict.
EstablishBaseline(ts) ==
    IF Len(ts) < MinBaselineSamples THEN None
    ELSE Some([mean |-> Mean(ts),
               stdev |-> IF Len(ts) > 1 THEN Stdev(ts) ELSE ZeroStdev,
               timings |-> ts])

\* ------------------------------------------------- differential classifier
AttackMean(at) == Mean(at)

\* NormalMean that takes the baseline mean whatever the run measured.
NormalMeanOfBaseline(nt, b) == b.mean

\* normal_mean, lines 248 and 305.
NormalMean(nt, b) == IF nt # <<>> THEN Mean(nt) ELSE b.mean

\* ProbeSample that takes the measured time of a probe that timed out.
ProbeSampleMeasured(r, timeout) ==
    IF r.outcome \in {"TIMEOUT", "OK"} THEN <<r.elapsed>> ELSE <<>>

\* Lines 229-233 and 286-290: what a probe attempt adds to attack_timings.
ProbeSample(r, timeout) ==
    IF r.outcome = "TIMEOUT" THEN <<timeout>>
    ELSE IF r.outcome = "OK" THEN <<r.elapsed>>
    ELSE <<>>

\* MoreRounds that leaves the loop once the timeouts of a HIGH verdict are
\* seen.
MoreRoundsUntilHigh(n, tc) == n < ProbeRounds /\ tc < HighTimeouts

\* `for i in range(3)` of the classifiers: after n rounds another follows.
MoreRounds(n, tc) == n < ProbeRounds

\* High with the confidence of the timing difference.
HighAsMedium(tc) ==
    [vulnerable |-> TRUE, confidence |-> "MEDIUM",
     details |-> <<"Timeout ratio">>]

High(tc) ==
    [vulnerable |-> TRUE, confidence |-> "HIGH",
     details |-> <<"Timeout ratio">>]
Medium == 
    [vulnerable |-> TRUE, confidence |-> "MEDIUM",
     details |-> <<"Timing difference">>]

\* Decide with the timeout test `timeout_count > 2`.
DecideStrictTimeouts(at, nt, tc, b) ==
    IF Len(at) < MinProbeSamples THEN None
    ELSE IF tc > HighTimeouts THEN Some(High(tc))
    ELSE IF /\ ExceedsByStdev(AttackMean(at), NormalMean(nt, b), b.stdev,
                              StdevFactor)
            /\ ExceedsTimes(AttackMean(at), NormalMean(nt, b), RatioFactor)
    THEN Some(Medium)
    ELSE None

\* Decide without the standard deviation threshold.
DecideNoStdev(at, nt, tc, b) ==
    IF Len(at) < MinProbeSamples THEN None
    ELSE IF tc >= HighTimeouts THEN Some(High(tc))
    ELSE IF ExceedsTimes(AttackMean(at), NormalMean(nt, b), RatioFactor)
    THEN Some(Medium)
    ELSE None

\* Decide without the threshold of twice the normal mean.
DecideNoRatio(at, nt, tc, b) ==
    IF Len(at) < MinProbeSamples THEN None
    ELSE IF tc >= HighTimeouts THEN Some(High(tc))
    ELSE IF ExceedsByStdev(AttackMean(at), NormalMean(nt, b), b.stdev,
                           StdevFactor)
    THEN Some(Medium)
    ELSE None

\* Decide with the test `len(attack_timings) < 1`.
DecideOneSample(at, nt, tc, b) ==
    IF Len(at) < 1 THEN None
    ELSE IF tc >= HighTimeouts THEN Some(High(tc))
    ELSE IF /\ ExceedsByStdev(AttackMean(at), NormalMean(nt, b), b.stdev,
                              StdevFactor)
            /\ ExceedsTimes(AttackMean(at), NormalMean(nt, b), RatioFactor)
    THEN Some(Medium)
    ELSE None

\* test_clte_vulnerability and test_tecl_vulnerability after their loop
\* (the two decide alike): None, or the verdict dict.
Decide(at, nt, tc, b) ==
    IF Len(at) < MinProbeSamples THEN None
    ELSE IF tc >= HighTimeouts THEN Some(High(tc))
    ELSE IF /\ ExceedsByStdev(AttackMean(at), NormalMean(nt, b), b.stdev,
                              StdevFactor)
            /\ ExceedsTimes(AttackMean(at), NormalMean(nt, b), RatioFactor)
    THEN Some(Medium)
    ELSE None

\* ---------------------------------------------------------------- summary
\* PrintSummary without the test of result['vulnerable'].
PrintSummaryAll(rs) == rs

\* print_summary: the results it lists, in order.
PrintSummary(rs) == SelectSeq(rs, LAMBDA r : r.vulnerable)

\* ------------------------------------------------------------------ texts
\* A Python str is the sequence of its characters, each a string of its own;
\* "U+00FC" stands for the one character u with diaeresis.  The host names,
\* paths and methods of the model, spelled out.
Chars(s) ==
    CASE s = "example.com" ->
            <<"e", "x", "a", "m", "p", "l", "e", ".", "c", "o", "m">>
      [] s = "example_com" ->
            <<"e", "x", "a", "m", "p", "l", "e", "_", "c", "o", "m">>
      [] s = "b{U+00FC}cher.de" ->
            <<"b", "U+00FC", "c", "h", "e", "r", ".", "d", "e">>
      [] s = "/" -> <<"/">>
      [] s = "/api" -> <<"/", "a", "p", "i">>
      [] s = "GET" -> <<"G", "E", "T">>
      [] s = "POST" -> <<"P", "O", "S", "T">>
      [] s = "/hopefully404" ->
            <<"/", "h", "o", "p", "e", "f", "u", "l", "l", "y", "4", "0",
              "4">>
      [] s = "8080" -> <<"8", "0", "8", "0">>
      [] s = "0" -> <<"0">>
      [] s = "99999" -> <<"9", "9", "9", "9", "9">>
      [] s = "None" -> <<"N", "o", "n", "e">>

\* The characters of a path kept as a sequence of pieces.
RECURSIVE PathChars(_)
PathChars(p) ==
    IF p = <<>> THEN <<>> ELSE Chars(Head(p)) \o PathChars(Tail(p))

\* str.encode('utf-8'), one character: the bytes, each a string of its own.
Utf8(c) == IF c = "U+00FC" THEN <<"0xC3", "0xBC">> ELSE <<c>>

\* HTTPConnection.send: data.encode('utf-8'), computed half by half.
RECURSIVE Encode(_)
Encode(t) ==
    IF t = <<>> THEN <<>>
    ELSE IF Len(t) = 1 THEN Utf8(t[1])
    ELSE Encode(SubSeq(t, 1, Len(t) \div 2))
             \o Encode(SubSeq(t, Len(t) \div 2 + 1, Len(t)))

Digits ==
    <<"0", "1", "2", "3", "4", "5", "6", "7", "8", "9", "a", "b", "c", "d",
      "e", "f">>

\* hex(n)[2:] and str(n) for n >= 0.
RECURSIVE Numeral(_, _)
Numeral(n, base) ==
    IF n < base THEN <<Digits[n + 1]>>
    ELSE Numeral(n \div base, base) \o <<Digits[(n % base) + 1]>>
Hex(n) == Numeral(n, 16)
Str(n) == Numeral(n, 10)

CRLF == <<"\r", "\n">>
Http11 == <<" ", "H", "T", "T", "P", "/", "1", ".", "1">>
HostField == <<"H", "o", "s", "t", ":", " ">>
UserAgentLine ==
    <<"U", "s", "e", "r", "-", "A", "g", "e", "n", "t", ":", " ", "M", "o",
      "z", "i", "l", "l", "a", "/", "5", ".", "0", "\r", "\n">>
ContentTypeLine ==
    <<"C", "o", "n", "t", "e", "n", "t", "-", "T", "y", "p", "e", ":", " ",
      "a", "p", "p", "l", "i", "c", "a", "t", "i", "o", "n", "/", "x", "-",
      "w", "w", "w", "-", "f", "o", "r", "m", "-", "u", "r", "l", "e", "n",
      "c", "o", "d", "e", "d", "\r", "\n">>
ContentLengthField ==
    <<"C", "o", "n", "t", "e", "n", "t", "-", "L", "e", "n", "g", "t", "h",
      ":", " ">>
TransferEncodingLine ==
    <<"T", "r", "a", "n", "s", "f", "e", "r", "-", "E", "n", "c", "o", "d",
      "i", "n", "g", ":", " ", "c", "h", "u", "n", "k", "e", "d", "\r", "\n">>

RequestLine(method, endpoint) == method \o <<" ">> \o endpoint \o Http11 \o CRLF
HostLine(host) == HostField \o host \o CRLF
ContentLengthLine(digits) == ContentLengthField \o digits \o CRLF

\* -------------------------------------------------------- payload builders
BuildNormalRequest(host, endpoint, method) ==
    RequestLine(method, endpoint) \o HostLine(host) \o UserAgentLine
        \o ContentTypeLine \o ContentLengthLine(<<"4">>) \o CRLF
        \o <<"x", "=", "1">> \o CRLF

BuildClteTimingPayload(host, endpoint, method) ==
    RequestLine(method, endpoint) \o HostLine(host) \o UserAgentLine
        \o ContentLengthLine(<<"4">>) \o TransferEncodingLine \o CRLF
        \o <<"1">> \o CRLF \o <<"Z">> \o CRLF \o <<"Q">>

BuildTeclTimingPayload(host, endpoint, method) ==
    RequestLine(method, endpoint) \o HostLine(host) \o UserAgentLine
        \o ContentLengthLine(<<"6">>) \o TransferEncodingLine \o CRLF
        \o <<"0">> \o CRLF \o CRLF \o <<"X">>

\* build_clte_exploit, the request it embeds.
ClteSmuggled(host, smuggled_method, smuggled_path) ==
    RequestLine(smuggled_method, smuggled_path) \o HostLine(host)
        \o ContentLengthLine(<<"1", "0">>) \o CRLF \o <<"x", "=">>

\* build_clte_exploit, chunk_size: len() counts the characters of the str.
ClteChunkSize(smuggled) == Hex(Len(smuggled))

\* ClteContentLength with the fixed length of the timing probe.
ClteContentLengthFixed(chunk_data) == <<"4">>

\* build_clte_exploit, the outer Content-Length: len(chunk_data), the
\* characters of the whole chunked body.
ClteContentLength(chunk_data) == Str(Len(chunk_data))

BuildClteExploit(host, endpoint, smuggled_method, smuggled_path) ==
    LET smuggled == ClteSmuggled(host, smuggled_method, smuggled_path)
        chunk_data == ClteChunkSize(smuggled) \o CRLF \o smuggled \o CRLF
                          \o <<"0">> \o CRLF \o CRLF
    IN  RequestLine(Chars("POST"), endpoint) \o HostLine(host)
            \o UserAgentLine
            \o ContentLengthLine(ClteContentLength(chunk_data))
            \o TransferEncodingLine \o CRLF \o chunk_data

\* TeclSmuggled with the body of the request the CL.TE exploit embeds.
TeclSmuggledShortBody(smuggled_method, smuggled_path) ==
    RequestLine(smuggled_method, smuggled_path) \o ContentTypeLine
        \o ContentLengthLine(<<"1", "5">>) \o CRLF \o <<"x", "=">>

\* build_tecl_exploit, the request it embeds.
TeclSmuggled(smuggled_method, smuggled_path) ==
    RequestLine(smuggled_method, smuggled_path) \o ContentTypeLine
        \o ContentLengthLine(<<"1", "5">>) \o CRLF \o <<"x", "=", "1">>

BuildTeclExploit(host, endpoint, smuggled_method, smuggled_path) ==
    LET smuggled == TeclSmuggled(smuggled_method, smuggled_path)
        chunk_size == Hex(Len(smuggled))
    IN  RequestLine(Chars("POST"), endpoint) \o HostLine(host)
            \o ContentTypeLine \o ContentLengthLine(<<"4">>)
            \o TransferEncodingLine \o CRLF \o chunk_size \o CRLF
            \o smuggled \o CRLF \o <<"0">> \o CRLF \o CRLF

Builders == {"normal", "clte_timing", "tecl_timing", "clte", "tecl"}

\* The payload a builder returns for the arguments a.
Build(builder, a) ==
    CASE builder = "normal" -> BuildNormalRequest(a.host, a.endpoint, a.method)
      [] builder = "clte_timing" ->
            BuildClteTimingPayload(a.host, a.endpoint, a.method)
      [] builder = "tecl_timing" ->
            BuildTeclTimingPayload(a.host, a.endpoint, a.method)
      [] builder = "clte" ->
            BuildClteExploit(a.host, a.endpoint, a.smuggled_method,
                             a.smuggled_path)
      [] builder = "tecl" ->
            BuildTeclExploit(a.host, a.endpoint, a.smuggled_method,
                             a.smuggled_path)

\* ------------------------------------------------- reading a request back
\* The position of the first occurrence of p in t at or after k; 0 when
\* there is none.
Find(t, p, k) ==
    LET at == {j \in k..(Len(t) - Len(p) + 1) :
                 SubSeq(t, j, j + Len(p) - 1) = p}
    IN  IF at = {} THEN 0 ELSE CHOOSE j \in at : \A x \in at : j <= x

Drop(t, n) == SubSeq(t, n + 1, Len(t))

\* The header section of a request, with the CRLF of its last line, and
\* what follows the blank line.
HeadOf(bytes) == SubSeq(bytes, 1, Find(bytes, CRLF \o CRLF, 1) + 1)
BodyOf(bytes) == Drop(bytes, Find(bytes, CRLF \o CRLF, 1) + 3)

IsHex(t) == t # <<>> /\ \A k \in 1..Len(t) : \E v \in 1..16 : Digits[v] = t[k]
DigitValue(c) == (CHOOSE v \in 1..16 : Digits[v] = c) - 1
RECURSIVE HexValue(_)
HexValue(t) ==
    IF t = <<>> THEN 0
    ELSE 16 * HexValue(SubSeq(t, 1, Len(t) - 1)) + DigitValue(t[Len(t)])

\* A server that decodes a chunked body finds it whole: every chunk has its
\* size line, its bytes and its CRLF, and the zero chunk and the blank line
\* end it.
RECURSIVE ChunkedComplete(_)
ChunkedComplete(b) ==
    LET k == Find(b, CRLF, 1)
        line == SubSeq(b, 1, k - 1)
        size == HexValue(line)
        rest == Drop(b, k + 1)
    IN  IF k = 0 \/ ~IsHex(line) THEN FALSE
        ELSE IF size = 0 THEN Find(rest, CRLF, 1) = 1
        ELSE /\ Len(rest) >= size + 2
             /\ SubSeq(rest, size + 1, size + 2) = CRLF
             /\ ChunkedComplete(Drop(rest, size + 2))

\* The back end waits for the rest of a request that declares a chunked
\* body and does not end it.
Stalls(payload) ==
    /\ Find(HeadOf(Encode(payload)), TransferEncodingLine, 1) > 0
    /\ ~ChunkedComplete(BodyOf(Encode(payload)))

\* What a back end that decodes Transfer-Encoding does to an attempt: it
\* answers within a second, except that it never answers a request it waits
\* for the rest of.
SimulatedBackEnd(payload) ==
    [connect |-> "ok", send |-> "ok",
     recv |-> IF Stalls(payload) THEN "timeout" ELSE "data",
     close |-> "ok", elapsed |-> 1]

\* ------------------------------------------------------- the file system
\* os.linesep.
Linesep(p) == IF p = "nt" THEN CRLF ELSE <<"\n">>

\* f.write(exploit) on a file opened with open(filename, 'w'): text mode
\* with newline=None writes os.linesep for every "\n" of the text.  Computed
\* half by half.
RECURSIVE TextWrite(_, _)
TextWrite(p, t) ==
    IF t = <<>> THEN <<>>
    ELSE IF Len(t) = 1 THEN (IF t[1] = "\n" THEN Linesep(p) ELSE t)
    ELSE TextWrite(p, SubSeq(t, 1, Len(t) \div 2))
             \o TextWrite(p, SubSeq(t, Len(t) \div 2 + 1, Len(t)))

\* ------------------------------------------------------------- the state
VARIABLES
    urls,            \* main: the targets of the run
    idx,             \* main: the position of the for loop in urls, from 1
    pc,              \* where the program stands
    all_results,     \* main: the results of the targets scanned
    summary,         \* what print_summary printed; None before it ran
    exc,             \* the exception that ended the run, "none" otherwise
    exit_code,       \* the exit status of the process; -1 while it runs
    files,           \* the exploit files written, in order
    target,          \* scan_target: host, port, endpoint, use_ssl
    results,         \* scan_target: the result dict
    baseline,        \* scan_target: what establish_baseline returned
    verdict,         \* scan_target: clte_result, then tecl_result
    i,               \* the loop index of the estimator or classifier
    phase,           \* classifier: the request its round sends next
    timings,         \* establish_baseline: timings
    attack_timings,  \* classifier: attack_timings
    normal_timings,  \* classifier: normal_timings
    timeout_count,   \* classifier: timeout_count
    obs,             \* history: the outcomes of the requests, counted
    log,             \* history: the requests and writes of the target
    net,             \* the scenario of the attempt checked on its own
    last,            \* what test_payload returned last; None before
    platform,        \* os.name: "posix" or "nt"
    since,           \* tenths of a second slept since the last write of a class
    conform,         \* history: the network answered as SimulatedBackEnd
    fates,           \* history: how scan_target ended for each result
    open,            \* the connected sockets nothing has closed yet
    during,          \* history: the sockets connected during the last attempt
    built            \* the payload a builder returned; None before

vars ==
    <<urls, idx, pc, all_results, summary, exc, exit_code, files, target,
      results, baseline, verdict, i, phase, timings, attack_timings,
      normal_timings, timeout_count, obs, log, net, last, platform, since,
      conform, fates, open, during, built>>

runVars == <<urls, all_results, summary, files, fates, platform>>
attemptVars == <<net, open, during, built>>

Latencies == {1, MaxLat}
FastOnly == {1}
Samples == 1..MaxSample

NoObs ==
    [base_ok |-> 0, ok |-> 0, timeout |-> 0, failed |-> 0, normal_ok |-> 0]
\* The history as a classifier starts: its counts of outcomes at zero.
ProbesReset(o) ==
    [o EXCEPT !.ok = 0, !.timeout = 0, !.failed = 0, !.normal_ok = 0]

\* Classes with the TE.CL classifier called first.
ClassesSwapped == <<"tecl", "clte">>

\* scan_target, the order of its classifier calls.
Classes == <<"clte", "tecl">>
Decided(cls) == IF cls = "clte" THEN "clte_decided" ELSE "tecl_decided"
ClassAt(p) == IF p \in {"clte", "clte_decided"} THEN "clte" ELSE "tecl"
NoTarget == [host |-> NoStr, port |-> 0, endpoint |-> <<>>, use_ssl |-> FALSE]
IdleNet ==
    [connect |-> "ok", send |-> "ok", recv |-> "data", close |-> "ok",
     elapsed |-> 1]

RECURSIVE ListsUpTo(_, _)
ListsUpTo(S, n) ==
    IF n = 0 THEN {<<>>}
    ELSE LET shorter == ListsUpTo(S, n - 1)
         IN  shorter \cup {Append(l, x) : l \in shorter, x \in S}

\* main, the defaults of -m, -sm and -path.
Method == "POST"
SmuggledMethod == "GET"
SmuggledPath == "/hopefully404"

\* time.sleep without its wait.
NoSleepAfter(stage) == 0

\* The argument of the time.sleep that follows a request, in tenths of a
\* second: 0.3 in establish_baseline, 0.5 in the classifiers.
SleepAfter(stage) == IF stage = "baseline" THEN 3 ELSE 5

\* main, the defaults of -d the runs are made with, in tenths of a second.
Delays == {0, 5}

\* The clock after a wait.  Of the time since the last write of a class the
\* model keeps whether a second has passed: it counts the tenths slept, up
\* to 10, and takes the requests themselves to last no time at all.
Aged(s, tenths) ==
    [c \in DOMAIN s |-> IF s[c] + tenths > 10 THEN 10 ELSE s[c] + tenths]

\* The normal request and the timing probe of a class for the target.
NormalPayload ==
    BuildNormalRequest(Chars(target.host), PathChars(target.endpoint),
                       Chars(Method))
AttackPayload(cls) ==
    IF cls = "clte"
    THEN BuildClteTimingPayload(Chars(target.host),
                                PathChars(target.endpoint), Chars(Method))
    ELSE BuildTeclTimingPayload(Chars(target.host),
                                PathChars(target.endpoint), Chars(Method))

\* The locals of scan_target and of the functions it calls, as they are when
\* no target is being scanned.
LocalsCleared ==
    /\ target' = NoTarget
    /\ results' = None
    /\ baseline' = None
    /\ verdict' = None
    /\ i' = 0
    /\ phase' = "probe"
    /\ timings' = <<>>
    /\ attack_timings' = <<>>
    /\ normal_timings' = <<>>
    /\ timeout_count' = 0
    /\ obs' = NoObs
    /\ last' = None

\* No exploit file written yet: the last write of each class is at least a
\* second away.
LongAgo == [clte |-> 10, tecl |-> 10]

InitWith(lists, nets, start, platforms) ==
    /\ urls \in lists
    /\ idx = 1
    /\ pc = start
    /\ all_results = <<>>
    /\ summary = None
    /\ exc = "none"
    /\ exit_code = -1
    /\ files = <<>>
    /\ target = NoTarget
    /\ results = None
    /\ baseline = None
    /\ verdict = None
    /\ i = 0
    /\ phase = "probe"
    /\ timings = <<>>
    /\ attack_timings = <<>>
    /\ normal_timings = <<>>
    /\ timeout_count = 0
    /\ obs = NoObs
    /\ log = <<>>
    /\ net \in nets
    /\ last = None
    /\ platform \in platforms
    /\ since = LongAgo
    /\ conform = FALSE
    /\ fates = <<>>
    /\ open = 0
    /\ during = 0
    /\ built = None

\* An exception nothing catches: the interpreter prints the traceback and the
\* process ends with status 1.
Crash(e) ==
    /\ pc' = "crashed"
    /\ exc' = e
    /\ exit_code' = 1
    /\ LocalsCleared
    /\ UNCHANGED <<runVars, idx, log, attemptVars, since, conform>>

\* scan_target returns to main, which appends the result, sleeps args.d when
\* the run has several targets, and moves on.  fate tells the return after a
\* failed baseline from the return after the classifiers; s is the clock.
Return(r, fate, s) ==
    /\ all_results' = Append(all_results, r)
    /\ fates' = Append(fates, fate)
    /\ idx' = idx + 1
    /\ pc' = "loop"
    /\ LocalsCleared
    /\ \E d \in Delays : since' = IF Len(urls) > 1 THEN Aged(s, d) ELSE s
    /\ UNCHANGED <<urls, summary, exc, exit_code, attemptVars, platform,
                   conform>>

\* main calls scan_target for the next target, which parses the address and
\* builds the result dict.
StartScan ==
    /\ pc = "loop"
    /\ idx <= Len(urls)
    /\ LET t == Normalize(urls[idx])
       IN  IF t.raised # "none"
           THEN Crash(t.raised)
           ELSE /\ target' = [host |-> t.host, port |-> t.port,
                              endpoint |-> t.endpoint, use_ssl |-> t.use_ssl]
                /\ results' = Some(NewResults(t))
                /\ pc' = "baseline"
                /\ i' = 0
                /\ timings' = <<>>
                /\ log' = <<>>
                /\ obs' = NoObs
                /\ conform' = TRUE
                /\ UNCHANGED <<runVars, idx, exc, exit_code, baseline, verdict,
                               phase, attack_timings, normal_timings,
                               timeout_count, attemptVars, last, since>>

\* establish_baseline, one round of its loop: one normal request.
BaselineAttempt(L) ==
    /\ pc = "baseline"
    /\ i < BaselineAttempts
    /\ \E sc \in Scenarios(L) :
          LET r == TestPayload(target.host, sc, Timeout)
          IN  IF r.raised # "none"
              THEN Crash(r.raised)
              ELSE /\ timings' = IF r.outcome = "OK"
                                 THEN Append(timings, r.elapsed)
                                 ELSE timings
                   /\ obs' = IF r.outcome = "OK"
                             THEN [obs EXCEPT !.base_ok = @ + 1]
                             ELSE obs
                   /\ i' = i + 1
                   /\ log' = Append(log, <<"baseline", "normal">>)
                   /\ last' = Some(r)
                   /\ since' = Aged(since, SleepAfter("baseline"))
                   /\ conform' = (conform /\ sc = SimulatedBackEnd(NormalPayload))
                   /\ UNCHANGED <<runVars, idx, pc, exc, exit_code, target,
                                  results, baseline, verdict, phase,
                                  attack_timings, normal_timings,
                                  timeout_count, attemptVars>>

\* ReturnedOnSkip with a mark of the skip in the result.
MarkedSkipped(r) == [r EXCEPT !.confidence = "SKIPPED"]

\* scan_target, line 360: what it returns when there is no baseline.
ReturnedOnSkip(r) == r

\* establish_baseline after its loop, and scan_target on its return: without
\* a baseline the target is left; with one the CL.TE classifier starts.
BaselineFinish ==
    /\ pc = "baseline"
    /\ i = BaselineAttempts
    /\ LET b == EstablishBaseline(timings)
       IN  IF b = None
           THEN Return(ReturnedOnSkip(Get(results)), "SKIPPED", since)
                    /\ UNCHANGED <<files, log>>
           ELSE /\ baseline' = b
                /\ last' = None
                /\ pc' = Classes[1]
                /\ i' = 0
                /\ phase' = "probe"
                /\ timings' = <<>>
                /\ attack_timings' = <<>>
                /\ normal_timings' = <<>>
                /\ timeout_count' = 0
                /\ obs' = ProbesReset(obs)
                /\ UNCHANGED <<runVars, idx, exc, exit_code, target, results,
                               verdict, log, attemptVars, since, conform>>

\* A classifier, the first half of a round: the probe request.
ProbeAttempt(L) ==
    /\ pc \in {"clte", "tecl"}
    /\ MoreRounds(i, timeout_count)
    /\ phase = "probe"
    /\ \E sc \in Scenarios(L) :
          LET r == TestPayload(target.host, sc, Timeout)
          IN  IF r.raised # "none"
              THEN Crash(r.raised)
              ELSE /\ timeout_count' = IF r.outcome = "TIMEOUT"
                                       THEN timeout_count + 1
                                       ELSE timeout_count
                   /\ attack_timings' =
                        attack_timings \o ProbeSample(r, Timeout)
                   /\ obs' = IF r.outcome = "TIMEOUT"
                             THEN [obs EXCEPT !.timeout = @ + 1]
                             ELSE IF r.outcome = "OK"
                             THEN [obs EXCEPT !.ok = @ + 1]
                             ELSE [obs EXCEPT !.failed = @ + 1]
                   /\ phase' = "normal"
                   /\ log' = Append(log, <<pc, "probe">>)
                   /\ since' = Aged(since, SleepAfter(pc))
                   /\ conform' =
                        (conform /\ sc = SimulatedBackEnd(AttackPayload(pc)))
                   /\ UNCHANGED <<runVars, idx, pc, exc, exit_code, target,
                                  results, baseline, verdict, i, timings,
                                  normal_timings, attemptVars, last>>

\* A classifier, the second half of a round: the normal request.
NormalAttempt(L) ==
    /\ pc \in {"clte", "tecl"}
    /\ MoreRounds(i, timeout_count)
    /\ phase = "normal"
    /\ \E sc \in Scenarios(L) :
          LET r == TestPayload(target.host, sc, Timeout)
          IN  IF r.raised # "none"
              THEN Crash(r.raised)
              ELSE /\ normal_timings' = IF r.outcome = "OK"
                                        THEN Append(normal_timings, r.elapsed)
                                        ELSE normal_timings
                   /\ obs' = IF r.outcome = "OK"
                             THEN [obs EXCEPT !.normal_ok = @ + 1]
                             ELSE obs
                   /\ phase' = "probe"
                   /\ i' = i + 1
                   /\ log' = Append(log, <<pc, "normal">>)
                   /\ since' = Aged(since, SleepAfter(pc))
                   /\ conform' = (conform /\ sc = SimulatedBackEnd(NormalPayload))
                   /\ UNCHANGED <<runVars, idx, pc, exc, exit_code, target,
                                  results, baseline, verdict, timings,
                                  attack_timings, timeout_count, attemptVars,
                                  last>>

\* A classifier after its loop: the verdict it returns.
Classify ==
    /\ pc \in {"clte", "tecl"}
    /\ ~MoreRounds(i, timeout_count)
    /\ verdict' = Decide(attack_timings, normal_timings, timeout_count,
                         Get(baseline))
    /\ pc' = Decided(pc)
    /\ UNCHANGED <<runVars, idx, exc, exit_code, target, results, baseline, i,
                   phase, timings, attack_timings, normal_timings,
                   timeout_count, obs, log, attemptVars, last, since, conform>>

\* ----------------------------------------------------- exploit artifacts
\* host.replace('.', '_').
Sanitize(t) == [k \in 1..Len(t) |-> IF t[k] = "." THEN "_" ELSE t[k]]

\* The path of an exploit file: the class prefix, the sanitized host and
\* int(time.time()).  The directory and ".txt" are the same for all.
Filename(cls, host, stamp) ==
    [class |-> cls, host |-> Sanitize(Chars(host)), stamp |-> stamp]

Largest(S) == IF S = {} THEN 0 ELSE CHOOSE m \in S : \A x \in S : x <= m

\* int(time.time()) at a write of class cls.  A stamp is kept as its rank
\* among the seconds in which files of the class were written: a second or
\* more after the last such write the clock shows a later second; sooner
\* than that it shows the same second or the next one.
Stamps(cls) ==
    LET latest == Largest({files[k].name.stamp :
                             k \in {j \in 1..Len(files) :
                                       files[j].name.class = cls}})
    IN  IF since[cls] >= 10 THEN {latest + 1} ELSE {latest, latest + 1}

\* The exploit scan_target builds for a class.
Exploit(cls) ==
    Build(cls, [host |-> Chars(target.host),
                endpoint |-> PathChars(target.endpoint),
                method |-> Chars(Method),
                smuggled_method |-> Chars(SmuggledMethod),
                smuggled_path |-> Chars(SmuggledPath)])

\* os.makedirs and open(filename, 'w'): what the file system does.
WriteKinds == {"ok", "makedirs_fails", "open_fails"}

\* Recorded with a TE.CL verdict that replaces what CL.TE recorded.
RecordedLastWins(r, cls, v) ==
    [r EXCEPT !.vulnerable = TRUE,
              !.vuln_type = IF cls = "clte" THEN "CL.TE" ELSE "TE.CL",
              !.confidence = v.confidence,
              !.details = Append(@, v.details)]

\* Recorded with the higher of the two confidences when both are found.
RecordedHighest(r, cls, v) ==
    IF cls = "clte"
    THEN [r EXCEPT !.vulnerable = TRUE, !.vuln_type = "CL.TE",
                   !.confidence = v.confidence,
                   !.details = Append(@, v.details)]
    ELSE IF ~r.vulnerable
    THEN [r EXCEPT !.vulnerable = TRUE, !.vuln_type = "TE.CL",
                   !.confidence = v.confidence,
                   !.details = Append(@, v.details)]
    ELSE [r EXCEPT !.vuln_type = "CL.TE+TE.CL",
                   !.confidence = IF v.confidence = "HIGH" THEN "HIGH" ELSE @,
                   !.details = Append(@, v.details)]

\* scan_target, lines 363-367 and 381-389: the verdict enters the result.
Recorded(r, cls, v) ==
    IF cls = "clte"
    THEN [r EXCEPT !.vulnerable = TRUE, !.vuln_type = "CL.TE",
                   !.confidence = v.confidence,
                   !.details = Append(@, v.details)]
    ELSE IF ~r.vulnerable
    THEN [r EXCEPT !.vulnerable = TRUE, !.vuln_type = "TE.CL",
                   !.confidence = v.confidence,
                   !.details = Append(@, v.details)]
    ELSE [r EXCEPT !.vuln_type = "CL.TE+TE.CL",
                   !.details = Append(@, v.details)]

\* scan_target, lines 377 and 399: the path of the file enters the result.
Saved(r, filename) ==
    [r EXCEPT !.details = Append(@, <<"Exploit saved", filename>>)]

\* scan_target after a classifier returned: a vulnerable verdict is recorded
\* and its exploit file written; then the TE.CL classifier starts, or, after
\* it, scan_target returns.
HandleVerdict ==
    /\ pc \in {"clte_decided", "tecl_decided"}
    /\ LET cls == ClassAt(pc)
           hit == verdict # None /\ Get(verdict).vulnerable
       IN  \E w \in IF hit THEN WriteKinds ELSE {"ok"},
              stamp \in IF hit THEN Stamps(cls) ELSE {0} :
              LET filename == Filename(cls, target.host, stamp)
                  r == IF hit
                       THEN Saved(Recorded(Get(results), cls, Get(verdict)),
                                  filename)
                       ELSE Get(results)
                  clock == IF hit THEN [since EXCEPT ![cls] = 0] ELSE since
              IN
              IF w # "ok"
              THEN Crash("OSError")
              ELSE /\ files' =
                        IF hit
                        THEN Append(files,
                                    [name |-> filename, target |-> idx,
                                     content |-> TextWrite(platform,
                                                           Exploit(cls))])
                        ELSE files
                   /\ log' = IF hit THEN Append(log, <<cls, "write">>) ELSE log
                   /\ IF cls = Classes[1]
                      THEN /\ results' = Some(r)
                           /\ since' = clock
                           /\ pc' = Classes[2]
                           /\ verdict' = None
                           /\ i' = 0
                           /\ phase' = "probe"
                           /\ attack_timings' = <<>>
                           /\ normal_timings' = <<>>
                           /\ timeout_count' = 0
                           /\ obs' = ProbesReset(obs)
                           /\ UNCHANGED <<urls, idx, all_results, summary, exc,
                                          exit_code, target, baseline, timings,
                                          attemptVars, last, platform, conform,
                                          fates>>
                      ELSE Return(r, "DONE", clock)

\* main after its loop: print_summary, and the process ends.
Summarize ==
    /\ pc = "loop"
    /\ idx > Len(urls)
    /\ summary' = Some(PrintSummary(all_results))
    /\ pc' = "done"
    /\ exit_code' = 0
    /\ UNCHANGED <<urls, idx, all_results, exc, files, target, results,
                   baseline, verdict, i, phase, timings, attack_timings,
                   normal_timings, timeout_count, obs, log, attemptVars, last,
                   platform, since, conform, fates>>

\* Interrupt with a handler that prints the summary before it exits.
InterruptWithSummary ==
    /\ pc \in {"loop", "baseline", "clte", "clte_decided", "tecl",
               "tecl_decided"}
    /\ pc' = "exited"
    /\ exc' = "KeyboardInterrupt"
    /\ exit_code' = 0
    /\ summary' = Some(PrintSummary(all_results))
    /\ LocalsCleared
    /\ UNCHANGED <<urls, all_results, files, idx, log, attemptVars, platform,
                   since, conform, fates>>

Running ==
    {"loop", "baseline", "clte", "clte_decided", "tecl", "tecl_decided"}

\* A KeyboardInterrupt while main runs: the handler of __main__ prints a
\* notice and calls sys.exit(0).
Interrupt ==
    /\ pc \in Running
    /\ pc' = "exited"
    /\ exc' = "KeyboardInterrupt"
    /\ exit_code' = 0
    /\ LocalsCleared
    /\ UNCHANGED <<runVars, idx, log, attemptVars, since, conform>>

Next(L) ==
    \/ StartScan
    \/ BaselineAttempt(L)
    \/ BaselineFinish
    \/ ProbeAttempt(L)
    \/ NormalAttempt(L)
    \/ Classify
    \/ HandleVerdict
    \/ Summarize
    \/ Interrupt

\* What the scans leave alone when test_payload is run on its own.
scanVars ==
    <<urls, idx, pc, all_results, summary, exc, exit_code, files, target,
      results, baseline, verdict, i, phase, timings, attack_timings,
      normal_timings, timeout_count, obs, log, platform, since, conform,
      fates>>

\* The socket of the HTTPConnection when test_payload returns: never
\* connected, closed by conn.close(), or connected and left as it is by the
\* except clauses, which do not call conn.close().
SocketLeft(host, sc) ==
    IF host = NoStr \/ sc.connect \in {"timeout", "refused", "dns"}
    THEN "unconnected"
    ELSE IF sc.connect = "tls" \/ Send(sc) # "none" THEN "open"
    ELSE "closed"

\* One request attempt on its own, in the scenario net.
Attempt ==
    /\ pc = "attempt"
    /\ last = None
    /\ open < MaxUnclosed
    /\ last' = Some(TestPayload("example.com", net, Timeout))
    /\ during' = IF SocketLeft("example.com", net) = "unconnected"
                 THEN open
                 ELSE open + 1
    /\ open' = IF SocketLeft("example.com", net) = "open"
               THEN open + 1
               ELSE open
    /\ UNCHANGED <<scanVars, net, built>>

\* The caller takes the result and calls test_payload again, on a network
\* that does as it likes.
NextAttempt ==
    /\ pc = "attempt"
    /\ last # None
    /\ last' = None
    /\ net' \in AllScenarios(Latencies)
    /\ UNCHANGED <<scanVars, open, during, built>>

\* The interpreter finalizes the sockets no reference holds any more, which
\* closes them: at once where objects are reference counted, at the next
\* collection otherwise.
Collect ==
    /\ pc = "attempt"
    /\ open > 0
    /\ open' = 0
    /\ UNCHANGED <<scanVars, net, last, during, built>>

\* A smuggled path of LongPathLen characters, as -path takes it.
LongPath == [k \in 1..LongPathLen |-> IF k = 1 THEN "/" ELSE "a"]

\* The arguments the builders are called with.
BuilderArgs ==
    [host : {Chars("example.com"), Chars("example_com"),
             Chars("b{U+00FC}cher.de")},
     endpoint : {Chars("/"), Chars("/api")},
     method : {Chars("GET"), Chars("POST")},
     smuggled_method : {Chars("GET"), Chars("POST")},
     smuggled_path : {Chars("/hopefully404"), Chars("/"), LongPath}]

\* A builder is called on its own and returns its payload.
BuildPayload ==
    /\ pc = "build"
    /\ built = None
    /\ \E b \in Builders, a \in BuilderArgs :
          built' = Some([builder |-> b, args |-> a, payload |-> Build(b, a)])
    /\ UNCHANGED <<scanVars, net, last, open, during>>

RunNext == Next(FastOnly)
ScanNext == Next(Latencies)
PayloadNext == Attempt \/ NextAttempt \/ Collect
BaselineNext == StartScan \/ BaselineAttempt(Samples) \/ BaselineFinish

\* A run over a list of targets, on a network whose answers take one second.
Spec ==
    InitWith(ListsUpTo(RunUrls, MaxTargets), {IdleNet}, "loop", {"posix"})
        /\ [][RunNext]_vars

\* The scan of one target, on a network with fast and slow answers.
ScanSpec ==
    InitWith({<<u>> : u \in Urls}, {IdleNet}, "loop", {"posix"})
        /\ [][ScanNext]_vars

\* Request attempts one after the other, each in any scenario.
PayloadSpec ==
    InitWith({<<>>}, AllScenarios(Latencies), "attempt", {"posix"})
        /\ [][PayloadNext]_vars

\* Every builder on every argument.
BuilderSpec ==
    InitWith({<<>>}, {IdleNet}, "build", {"posix"}) /\ [][BuildPayload]_vars

\* The normalisation of every address.
ParseSpec ==
    InitWith({<<u>> : u \in Addresses}, {IdleNet}, "loop", {"posix"})
        /\ [][StartScan]_vars

\* The baseline of one target, on a network whose answers take one second
\* and more.
BaselineSpec ==
    InitWith({<<BareHost>>}, {IdleNet}, "loop", {"posix"})
        /\ [][BaselineNext]_vars

\* The scan of one target on either platform, on a network whose answers
\* take one second.
WriteSpec ==
    InitWith({<<BareHost>>, <<FullUrl>>}, {IdleNet}, "loop", {"posix", "nt"})
        /\ [][RunNext]_vars

\* Runs over two targets that share a host or a sanitized host.
StoreSpec ==
    InitWith({<<a, b>> : a \in StoreUrls, b \in StoreUrls}, {IdleNet}, "loop",
             {"posix"})
        /\ [][RunNext]_vars

\* ------------------------------------------------------------ properties
\* A classifier has just returned: its locals and its verdict stand.
JustDecided == pc \in {"clte_decided", "tecl_decided"}

IsVerdict(conf) ==
    /\ verdict # None
    /\ Get(verdict).vulnerable
    /\ Get(verdict).confidence = conf

\* The means and thresholds of the run that has just decided.
ProbeMean == Mean(attack_timings)
RunNormalMean ==
    IF normal_timings # <<>> THEN Mean(normal_timings) ELSE Get(baseline).mean
OverStdev ==
    ExceedsByStdev(ProbeMean, RunNormalMean, Get(baseline).stdev, StdevFactor)
UnderStdev ==
    BelowByStdev(ProbeMean, RunNormalMean, Get(baseline).stdev, StdevFactor)
OverTwice == ExceedsTimes(ProbeMean, RunNormalMean, RatioFactor)

\* C1: in a classifier run of either class in which at least 2 of the 3 probe
\* attempts ended TIMEOUT, the verdict returned is vulnerable with confidence
\* HIGH, whatever the normal requests and the baseline were.
C1_TwoTimeoutsGiveHigh ==
    JustDecided /\ obs.timeout >= 2 => IsVerdict("HIGH")

\* C1 witness: a run with two timed out probes whose mean probe latency is
\* below the normal mean has returned HIGH.
C1_Witness ==
    /\ JustDecided
    /\ obs.timeout = 2
    /\ obs.ok = 1
    /\ normal_timings # <<>>
    /\ UnderStdev
    /\ IsVerdict("HIGH")

\* C2 as stated: whenever the mean probe latency the classifier computed is
\* below normal mean + 2 x baseline standard deviation, no verdict is returned.
C2_BelowThresholdNotVulnerable ==
    JustDecided /\ Len(attack_timings) >= MinProbeSamples /\ UnderStdev
        => verdict = None

\* C2 amended: when fewer than 2 probe attempts timed out and the mean probe
\* latency the classifier computed is below normal mean + 2 x baseline
\* standard deviation, no verdict is returned.
C2_BelowThresholdFewTimeouts ==
    JustDecided /\ Len(attack_timings) >= MinProbeSamples /\ UnderStdev
                /\ obs.timeout < 2
        => verdict = None

\* C2 witness: a run with fewer than two timeouts whose probe mean is above
\* twice the normal mean and below the standard deviation threshold has
\* returned no verdict.
C2_Witness ==
    /\ JustDecided
    /\ obs.timeout < 2
    /\ Len(attack_timings) >= MinProbeSamples
    /\ UnderStdev
    /\ OverTwice
    /\ verdict = None

\* C3: with fewer than 2 timed out probes and at least 2 usable probe
\* outcomes, the verdict is vulnerable with confidence MEDIUM exactly when the
\* probe mean strictly exceeds normal mean + 2 x baseline standard deviation
\* and strictly exceeds twice the normal mean; otherwise there is no verdict.
C3_MediumIffBothThresholds ==
    JustDecided /\ obs.timeout < 2 /\ obs.ok + obs.timeout >= 2
        => /\ IsVerdict("MEDIUM") <=> (OverStdev /\ OverTwice)
           /\ ~IsVerdict("MEDIUM") => verdict = None

\* C3 witness: a MEDIUM verdict against a baseline with a standard deviation
\* above zero.
C3_Witness ==
    /\ JustDecided
    /\ obs.timeout < 2
    /\ Get(baseline).stdev.rn > 0
    /\ IsVerdict("MEDIUM")

\* C3, the case of one threshold only: reached, without a verdict.
C3_OnlyStdevExceeded ==
    JustDecided /\ obs.timeout < 2 /\ obs.ok + obs.timeout >= 2
    /\ OverStdev /\ ~OverTwice /\ verdict = None

\* The classifier stages of a scan.
Classifying == pc \in {"clte", "clte_decided", "tecl", "tecl_decided"}
Scanning == pc = "baseline" \/ Classifying

\* C4, the state part: while a target is scanned, a probe or classifier
\* request was sent, a verdict exists or an exploit file of the target was
\* written only when the estimator returned a baseline holding the samples of
\* at least 3 attempts that ended OK.
C4_ProbingNeedsBaseline ==
    Scanning /\ (\/ Classifying
                 \/ \E k \in DOMAIN log : log[k][1] # "baseline"
                 \/ verdict # None
                 \/ \E k \in DOMAIN files : files[k].target = idx)
        => /\ baseline # None
           /\ obs.base_ok >= 3
           /\ Len(Get(baseline).timings) = obs.base_ok

\* C4, the step part: when fewer than 3 of the baseline attempts ended OK,
\* scan_target returns a result that is not vulnerable, with no class, no
\* confidence and no details, and sends and writes nothing more.
C4_SkipStep ==
    pc = "baseline" /\ i = 5 /\ obs.base_ok < 3 /\ pc' # "exited"
        => /\ pc' = "loop"
           /\ Len(all_results') = Len(all_results) + 1
           /\ SubSeq(all_results', 1, Len(all_results)) = all_results
           /\ LET r == all_results'[Len(all_results')]
              IN  /\ r.vulnerable = FALSE
                  /\ r.vuln_type = NoStr
                  /\ r.confidence = NoStr
                  /\ r.details = <<>>
           /\ files' = files
           /\ log' = log

\* C4: no probe request, verdict or exploit file without a baseline of at
\* least 3 OK samples; with fewer, scan_target returns the empty result.
C4_NoBaselineNoProbing == []C4_ProbingNeedsBaseline /\ [][C4_SkipStep]_vars

\* C4 witness: a target whose 5 baseline attempts all failed was left with the
\* empty result after its 5 baseline requests.
C4_Witness ==
    /\ pc = "loop"
    /\ idx = 2
    /\ Len(log) = 5
    /\ Len(all_results) = 1
    /\ ~all_results[1].vulnerable
    /\ all_results[1].details = <<>>
    /\ files = <<>>

\* The log of the target is in the order of the ranks R gives its entries.
InOrder(R(_)) ==
    \A j, k \in DOMAIN log : j < k => R(log[j]) <= R(log[k])

\* Baseline, CL.TE requests, TE.CL requests, then every write.
WritesLast(e) ==
    CASE e[2] = "write" -> 4
      [] e[1] = "baseline" -> 1
      [] e[1] = "clte" -> 2
      [] OTHER -> 3

\* Baseline, CL.TE requests, CL.TE write, TE.CL requests, TE.CL write.
WriteAfterOwnClass(e) ==
    CASE e[1] = "baseline" -> 1
      [] e = <<"clte", "write">> -> 3
      [] e[1] = "clte" -> 2
      [] e = <<"tecl", "write">> -> 5
      [] OTHER -> 4

C6_AttemptAlwaysReturnsOutcome ==
    last # None => Get(last).raised = "none" /\ Get(last).outcome \in Outcomes

\* C6 witness: an attempt whose TLS handshake failed has returned ERROR.
C6_Witness ==
    last # None /\ net.connect = "tls" /\ Get(last).outcome = "ERROR"

\* C7 as stated: a failure to create the output directory or to write an
\* exploit file does not end the run.
C7_WriteFailureDoesNotAbort == ~(pc = "crashed" /\ exc = "OSError")

\* C8 as stated: a run that was not interrupted ends with one result for each
\* target, in the order of the list.
C8_EveryTargetHasResult ==
    pc \in {"done", "crashed"}
        => /\ Len(all_results) = Len(urls)
           /\ \A k \in DOMAIN all_results :
                 all_results[k].url = Normalize(urls[k]).url

C9_ExitedQuietly ==
    exc = "KeyboardInterrupt"
        => pc = "exited" /\ exit_code = 0 /\ summary = None

\* C9 amended, the step part: the interrupt leaves the results and the exploit
\* files as they were, and after it no target is scanned and no file written.
C9_InterruptStep ==
    /\ exc' = "KeyboardInterrupt" =>
          all_results' = all_results /\ files' = files /\ idx' = idx
    /\ pc = "exited" => pc' = "exited"

C10_SummaryListsVulnerableOnly ==
    pc = "done"
        => /\ summary # None
           /\ \A j \in DOMAIN Get(summary) : Get(summary)[j].vulnerable
           /\ \A k \in DOMAIN all_results :
                 all_results[k].vulnerable
                    => \E j \in DOMAIN Get(summary) :
                          Get(summary)[j] = all_results[k]
           /\ Len(Get(summary)) =
                 Cardinality({k \in DOMAIN all_results :
                                 all_results[k].vulnerable})

\* C10 witness: a run over two targets, the first skipped or not vulnerable and
\* the second vulnerable, has printed a summary of one entry.
C10_Witness ==
    /\ pc = "done"
    /\ Len(all_results) = 2
    /\ ~all_results[1].vulnerable
    /\ all_results[2].vulnerable
    /\ Len(Get(summary)) = 1

\* ------------------------------------------------------ C11: exploit files
\* scan_target has returned for the one target of the run.
Returned == pc = "loop" /\ Len(all_results) = 1

\* The classes a result reports vulnerable.
ReportedClasses(r) ==
    CASE r.vuln_type = "CL.TE" -> {"clte"}
      [] r.vuln_type = "TE.CL" -> {"tecl"}
      [] r.vuln_type = "CL.TE+TE.CL" -> {"clte", "tecl"}
      [] OTHER -> {}

FilesOfClass(cls) == {k \in 1..Len(files) : files[k].name.class = cls}

\* C11: after scan_target returned for a target, there is one exploit file
\* for each class found vulnerable and none for the others, each file holds
\* exactly what the exploit builder of its class returned, and the result
\* records the path of each file.
C11_FilesMatchVerdicts ==
    Returned =>
        LET r == all_results[1]
        IN  /\ Len(files) = Cardinality(ReportedClasses(r))
            /\ \A cls \in {"clte", "tecl"} :
                  Cardinality(FilesOfClass(cls)) =
                      IF cls \in ReportedClasses(r) THEN 1 ELSE 0
            /\ \A k \in 1..Len(files) :
                  /\ files[k].content =
                        Build(files[k].name.class,
                              [host |-> Chars(r.host),
                               endpoint |-> PathChars(r.endpoint),
                               method |-> Chars(Method),
                               smuggled_method |-> Chars(SmuggledMethod),
                               smuggled_path |-> Chars(SmuggledPath)])
                  /\ \E d \in 1..Len(r.details) :
                        r.details[d] = <<"Exploit saved", files[k].name>>

\* ------------------------------------------------ C12: distinct file paths
\* C12: within one run no two exploit writes go to the same path, whether
\* the targets share a host, differ in the port only, or have hosts that
\* differ in '.' against '_' only.
C12_NoOverwrite ==
    \A j \in 1..Len(files) : \A k \in 1..Len(files) :
        j < k => files[j].name # files[k].name

\* Two targets whose hosts differ in '.' against '_' have each a file of the
\* same class, under the same sanitized host.
C12_Witness ==
    \E j \in 1..Len(files) : \E k \in 1..Len(files) :
        /\ j < k
        /\ files[j].name.class = files[k].name.class
        /\ files[j].name.host = files[k].name.host
        /\ urls[files[j].target].host # urls[files[k].target].host

\* ------------------------------------------------- C13: the CL.TE back end
\* C13: scan_target on a back end that never answers a request whose
\* chunked body is not ended, and answers every other request quickly,
\* returns vulnerable, CL.TE, HIGH, with exactly one exploit file written.
C13_ClteBackEndFound ==
    Returned /\ conform =>
        /\ all_results[1].vulnerable
        /\ all_results[1].vuln_type = "CL.TE"
        /\ all_results[1].confidence = "HIGH"
        /\ Len(files) = 1
        /\ files[1].name.class = "clte"

\* The scan of a target served by such a back end has returned, after the
\* three CL.TE probes timed out and the TE.CL probes were answered.
C13_Witness ==
    /\ Returned
    /\ conform
    /\ fates = <<"DONE">>
    /\ Len(log) = 18
    /\ Stalls(BuildClteTimingPayload(Chars("example.com"), Chars("/"),
                                     Chars(Method)))
    /\ ~Stalls(BuildTeclTimingPayload(Chars("example.com"), Chars("/"),
                                      Chars(Method)))

\* ------------------------------------------ C14: one connection at a time
\* C14: at most one connection is open at any moment, and the connection an
\* attempt opened is closed when the attempt has returned, whatever its
\* outcome.
C14_ConnectionClosedOnReturn ==
    /\ last # None => open = 0
    /\ during <= 1

\* --------------------------------------------- C15, C16: normalisation
\* scan_target has normalised the address of the run.
Parsed == pc = "baseline" /\ idx = 1

RootIfEmpty(path) == IF path = <<>> THEN <<"/">> ELSE path

\* C15: a bare host is scanned over https with TLS on port 443; a URL with
\* a scheme keeps its scheme (TLS exactly for https), its explicit port, or
\* 443 for https and 80 for http when it has none, and its path; an empty
\* path becomes "/".
C15_NormalizedAsWritten ==
    Parsed =>
        LET u == urls[1]
        IN  /\ u.scheme = "" /\ u.port = "" =>
                  /\ Get(results).url.scheme = "https"
                  /\ target = [host |-> u.host, port |-> 443,
                               endpoint |-> RootIfEmpty(u.path),
                               use_ssl |-> TRUE]
            /\ u.scheme # "" =>
                  /\ Get(results).url.scheme = u.scheme
                  /\ target.host = u.host
                  /\ target.use_ssl = (u.scheme = "https")
                  /\ target.endpoint = RootIfEmpty(u.path)
                  /\ target.port =
                        IF u.port # "" THEN PortNumber[u.port]
                        ELSE IF u.scheme = "https" THEN 443 ELSE 80

\* C16: an address written host:port without a scheme is scanned over https
\* with TLS, on that host and that port, at the root endpoint when it has
\* no path.
C16_HostPortGetsHttps ==
    Parsed /\ urls[1].scheme = "" /\ urls[1].port = "8080" =>
        /\ Get(results).url.scheme = "https"
        /\ target = [host |-> urls[1].host, port |-> 8080,
                     endpoint |-> RootIfEmpty(urls[1].path),
                     use_ssl |-> TRUE]

\* ------------------------------------------- C17: the CL.TE exploit chunk
\* C17: the body of the CL.TE exploit is one chunk whose size line, read as
\* hexadecimal, is the number of bytes of the smuggled request that follows
\* it, and after those bytes come CRLF and the terminating "0" CRLF CRLF as
\* the last bytes of the payload.
C17_ClteChunkSizeIsByteLength ==
    built # None /\ Get(built).builder = "clte" =>
        LET a == Get(built).args
            body == BodyOf(Encode(Get(built).payload))
            k == Find(body, CRLF, 1)
            line == SubSeq(body, 1, k - 1)
            rest == Drop(body, k + 1)
            smuggled == Encode(ClteSmuggled(a.host, a.smuggled_method,
                                            a.smuggled_path))
        IN  /\ k > 0
            /\ IsHex(line)
            /\ HexValue(line) = Len(smuggled)
            /\ SubSeq(rest, 1, HexValue(line)) = smuggled
            /\ Drop(rest, HexValue(line))
                   = CRLF \o <<"0">> \o CRLF \o CRLF

\* ------------------------------------------- C18: the baseline statistics
\* The sum of (N*x - S)^2 over the samples x: N^2 times the sum of the
\* squared deviations from the mean S/N.
RECURSIVE SqDevSum(_, _, _)
SqDevSum(ts, S, N) ==
    IF ts = <<>> THEN 0
    ELSE (N * Head(ts) - S) * (N * Head(ts) - S) + SqDevSum(Tail(ts), S, N)

\* The mean of a baseline is the sum of its samples over their number, its
\* standard deviation the root of the squared deviations over N - 1: 1 and
\* 0 for the samples 1, 1, 1; 2 and 1 for 1, 2, 3.
C18_Statistics ==
    baseline # None =>
        LET b == Get(baseline)
            N == Len(b.timings)
            S == Sum(b.timings)
        IN  /\ N >= 3
            /\ b.mean.n * N = S * b.mean.d
            /\ b.stdev.rn * N * N * (N - 1)
                   = b.stdev.rd * SqDevSum(b.timings, S, N)
            /\ b.timings = <<1, 1, 1>> =>
                   b.mean.n = b.mean.d /\ b.stdev.rn = 0
            /\ b.timings = <<1, 2, 3>> =>
                   b.mean.n = 2 * b.mean.d /\ b.stdev.rn = b.stdev.rd

\* Every baseline attempt appends its latency to the samples when its
\* outcome is OK and leaves them alone otherwise, and the baseline returned
\* holds the samples so collected.
C18_SamplesStep ==
    /\ pc = "baseline" /\ i' = i + 1 =>
          timings' = IF Get(last').outcome = "OK"
                     THEN Append(timings, Get(last').elapsed)
                     ELSE timings
    /\ pc = "baseline" /\ baseline' # None =>
          Get(baseline').timings = timings

\* C18: the baseline mean is the arithmetic mean of the samples, the
\* baseline standard deviation their sample standard deviation, and the
\* samples are the latencies of the attempts with outcome OK, in attempt
\* order.
C18_BaselineIsMeanAndStdev == []C18_Statistics /\ [][C18_SamplesStep]_vars

\* A baseline of the samples 1, 2, 3, taken from five attempts.
C18_Witness ==
    /\ baseline # None
    /\ Get(baseline).timings = <<1, 2, 3>>
    /\ Len(log) = 5

\* ---------------------------------------- C19: too few probe samples
\* A classifier has returned after fewer than 2 of its probes were answered
\* or timed out.
FewProbeSamples == JustDecided /\ obs.ok + obs.timeout < 2

C19_NoVerdict == FewProbeSamples => verdict = None

C19_Step ==
    FewProbeSamples =>
        /\ files' = files
        /\ pc' \in {"clte", "tecl"} => results' = results
        /\ pc' = "loop" => all_results' = Append(all_results, Get(results))

\* C19: a class whose probes gave fewer than 2 usable outcomes gets no
\* verdict: the classifier returns none, the result stays as it was before
\* the class was probed, and no exploit file is written for it.
C19_TooFewSamplesNoVerdict == []C19_NoVerdict /\ [][C19_Step]_vars

\* One probe timed out, the other two failed, and the normal requests were
\* answered.
C19_Witness ==
    /\ FewProbeSamples
    /\ obs.timeout = 1
    /\ obs.failed = 2
    /\ Len(normal_timings) = 3

Clean(r) ==
    /\ ~r.vulnerable
    /\ r.vuln_type = NoStr
    /\ r.confidence = NoStr
    /\ r.details = <<>>

BuiltExploit(cls) == built # None /\ Get(built).builder = cls

IsDec(t) == t # <<>> /\ \A k \in 1..Len(t) : \E v \in 1..10 : Digits[v] = t[k]
RECURSIVE DecValue(_)
DecValue(t) ==
    IF t = <<>> THEN 0
    ELSE 10 * DecValue(SubSeq(t, 1, Len(t) - 1)) + DigitValue(t[Len(t)])

\* The value of the first header line of the section head that starts with
\* field; <<>> when there is none.
HeaderValue(head, field) ==
    LET k == Find(head, CRLF \o field, 1)
    IN  IF k = 0 THEN <<>>
        ELSE SubSeq(head, k + 2 + Len(field),
                    Find(head, CRLF, k + 2) - 1)

\* The Content-Length the outer request of a payload declares.
OuterContentLength(payload) ==
    HeaderValue(HeadOf(Encode(payload)), ContentLengthField)

\* The size line of the first chunk of a body, with its CRLF.
SizeLine(body) == SubSeq(body, 1, Find(body, CRLF, 1) + 1)

\* What an exploit payload embeds: the bytes between the size line of the
\* first chunk and the CRLF "0" CRLF CRLF that ends the payload.
Embedded(payload) ==
    LET body == BodyOf(Encode(payload))
    IN  SubSeq(body, Len(SizeLine(body)) + 1, Len(body) - 7)

StartsWith(t, p) == Len(t) >= Len(p) /\ SubSeq(t, 1, Len(p)) = p

\* C21 as claimed: the Content-Length the CL.TE exploit declares differs
\* from the byte length of the chunked body that follows the outer headers.
C21_ClteLengthInconsistent ==
    BuiltExploit("clte") =>
        LET payload == Get(built).payload
        IN  /\ IsDec(OuterContentLength(payload))
            /\ DecValue(OuterContentLength(payload))
                   # Len(BodyOf(Encode(payload)))

\* C21: the Content-Length the CL.TE exploit declares is the number of
\* characters of the whole chunked body, the terminating chunk included;
\* when host, smuggled method and smuggled path are ASCII that is exactly
\* the byte length of the body, and it is never more than the byte length.
C21_ClteLengthIsBodyLength ==
    BuiltExploit("clte") =>
        LET payload == Get(built).payload
            declared == OuterContentLength(payload)
        IN  /\ IsDec(declared)
            /\ DecValue(declared) = Len(BodyOf(payload))
            /\ DecValue(declared) <= Len(BodyOf(Encode(payload)))
            /\ Encode(payload) = payload =>
                   DecValue(declared) = Len(BodyOf(Encode(payload)))

\* The CL.TE exploit for example.com with the default smuggled request
\* declares 82, and its chunked body is 82 bytes long.
C21_Witness ==
    /\ BuiltExploit("clte")
    /\ Get(built).args.host = Chars("example.com")
    /\ Get(built).args.smuggled_path = Chars("/hopefully404")
    /\ Get(built).args.smuggled_method = Chars("GET")
    /\ OuterContentLength(Get(built).payload) = <<"8", "2">>
    /\ Len(BodyOf(Encode(Get(built).payload))) = 82

\* C22 as claimed: the request the TE.CL exploit embeds is byte for byte
\* the request the CL.TE exploit embeds for the same host, smuggled method
\* and smuggled path.
C22_SameSmuggledRequest ==
    BuiltExploit("tecl") =>
        Embedded(Get(built).payload)
            = Embedded(Build("clte", Get(built).args))

\* C22: the two exploits embed requests with the same request line and
\* nothing else in common: the CL.TE one has a Host header of its own,
\* Content-Length 10 and the body "x="; the TE.CL one has a Content-Type
\* header and no Host header, Content-Length 15 and the body "x=1".
C22_SmuggledRequestsDiffer ==
    /\ BuiltExploit("clte") =>
          LET a == Get(built).args
          IN  Embedded(Get(built).payload) =
                  Encode(RequestLine(a.smuggled_method, a.smuggled_path)
                             \o HostLine(a.host)
                             \o ContentLengthLine(<<"1", "0">>) \o CRLF
                             \o <<"x", "=">>)
    /\ BuiltExploit("tecl") =>
          LET a == Get(built).args
          IN  Embedded(Get(built).payload) =
                  Encode(RequestLine(a.smuggled_method, a.smuggled_path)
                             \o ContentTypeLine
                             \o ContentLengthLine(<<"1", "5">>) \o CRLF
                             \o <<"x", "=", "1">>)

\* The TE.CL exploit for example.com with the default smuggled request: the
\* request it embeds has no Host header and is not the one of the CL.TE
\* exploit.
C22_Witness ==
    /\ BuiltExploit("tecl")
    /\ Get(built).args.host = Chars("example.com")
    /\ Get(built).args.smuggled_path = Chars("/hopefully404")
    /\ Find(Embedded(Get(built).payload), HostField, 1) = 0
    /\ Find(Embedded(Build("clte", Get(built).args)), HostField, 1) > 0

\* C30: the TE.CL exploit declares Content-Length 4, which is less than the
\* length of its chunked body and exactly the length of the chunk size
\* line, so that the bytes after the first 4 of the body start with the
\* smuggled request.
C30_TeclLengthIsSizeLine ==
    BuiltExploit("tecl") =>
        LET payload == Get(built).payload
            a == Get(built).args
            body == BodyOf(Encode(payload))
        IN  /\ OuterContentLength(payload) = <<"4">>
            /\ 4 < Len(body)
            /\ Len(SizeLine(body)) = 4
            /\ StartsWith(Drop(body, 4),
                          Encode(RequestLine(a.smuggled_method,
                                             a.smuggled_path)))

\* --------------------------------------------- C23: the failure outcomes
\* The attempt that has returned ran into the deadline: the connect, the
\* send or the wait for the first byte of the answer timed out.
DeadlineElapsed ==
    \/ net.connect = "timeout"
    \/ net.connect = "ok" /\ net.send = "timeout"
    \/ net.connect = "ok" /\ net.send = "ok" /\ net.recv = "timeout"

\* C23: an attempt's outcome is TIMEOUT only when no data arrived before
\* the deadline elapsed and REFUSED only when the connection was refused; a
\* peer that closes the connection at once without sending data, or a fault
\* raised while receiving, is not reported as TIMEOUT.
C23_FailuresAreDistinct ==
    last # None =>
        /\ Get(last).outcome = "TIMEOUT" => DeadlineElapsed
        /\ Get(last).outcome = "REFUSED" => net.connect = "refused"
        /\ net.connect = "ok" /\ net.send = "ok"
               /\ net.recv \in {"closed", "reset"}
               => Get(last).outcome # "TIMEOUT"

\* ------------------------------------------- C24: the baseline attempts
\* While the estimator runs it has sent one request for each round done,
\* at most 5, and holds one sample for each attempt that ended OK.
C24_Counts ==
    pc = "baseline" =>
        /\ i <= 5
        /\ Len(log) = i
        /\ Len(timings) = obs.base_ok
        /\ obs.base_ok <= i

\* An attempt adds one sample when its outcome is OK and none otherwise;
\* the estimator returns only after its fifth request, without a baseline
\* exactly when fewer than 3 attempts ended OK, and otherwise with a
\* baseline of all the samples, which are 3 to 5.
C24_Step ==
    /\ pc = "baseline" /\ i' = i + 1 =>
          Len(timings') =
              Len(timings) + IF Get(last').outcome = "OK" THEN 1 ELSE 0
    /\ pc = "baseline" /\ pc' # "baseline" =>
          /\ i = 5
          /\ Len(log) = 5
          /\ baseline' = None <=> obs.base_ok < 3
          /\ baseline' # None =>
                /\ Len(Get(baseline').timings) = obs.base_ok
                /\ Len(Get(baseline').timings) \in 3..5

\* C24: the baseline estimator sends exactly 5 normal requests whatever
\* their outcomes, records a sample only for the attempts with outcome OK,
\* and returns no baseline if and only if fewer than 3 of the 5 were OK, so
\* a baseline has 3 to 5 samples.
C24_FiveAttemptsThreeNeeded == []C24_Counts /\ [][C24_Step]_vars

\* A baseline of exactly 3 samples, returned after 5 requests of which two
\* did not end OK.
C24_Witness ==
    /\ pc = "clte"
    /\ baseline # None
    /\ Len(Get(baseline).timings) = 3
    /\ Len(log) = 5
    /\ obs.base_ok = 3

\* Four attempts have failed and the estimator goes on to the fifth.
C24_NoEarlyExit ==
    pc = "baseline" /\ i = 4 /\ obs.base_ok = 0

\* --------------------------------------- C25: the rounds of a classifier
\* The requests of the log that the classifier of class cls sent.
ClassRequests(cls) ==
    SelectSeq(log, LAMBDA e : e[1] = cls /\ e[2] # "write")

\* The first n requests of a run: probe, normal, probe, normal, ...
Alternating(cls, n) ==
    [k \in 1..n |-> <<cls, IF k % 2 = 1 THEN "probe" ELSE "normal">>]

\* A running classifier has sent its requests in alternation, two for each
\* round done, and one that has returned has sent exactly 6.
C25_Alternation ==
    /\ pc \in {"clte", "tecl"} =>
          ClassRequests(pc) =
              Alternating(pc, 2 * i + IF phase = "normal" THEN 1 ELSE 0)
    /\ JustDecided =>
          ClassRequests(ClassAt(pc)) = Alternating(ClassAt(pc), 6)

\* A classifier returns only after its sixth request.
C25_Step ==
    pc \in {"clte", "tecl"} /\ pc' \in {"clte_decided", "tecl_decided"} =>
        Len(ClassRequests(pc)) = 6

\* C25: each classifier run issues exactly 6 requests in the order probe,
\* normal, probe, normal, probe, normal, whatever their outcomes, and
\* decides only after the sixth.
C25_SixRequestsAlternating == []C25_Alternation /\ [][C25_Step]_vars

\* A run whose three probes all timed out has sent its 6 requests before
\* it returned HIGH.
C25_Witness ==
    /\ JustDecided
    /\ obs.timeout = 3
    /\ IsVerdict("HIGH")
    /\ Len(ClassRequests(ClassAt(pc))) = 6

\* ------------------------------------------ C26, C27: the result fields
\* The classes whose classifier returned a vulnerable verdict for the
\* target of the log: each has its exploit write there.
FoundClasses ==
    {cls \in {"clte", "tecl"} : \E k \in DOMAIN log : log[k] = <<cls, "write">>}

\* C26: in every result scan_target returned, vulnerable is true exactly
\* when the class is set and exactly when the confidence is set; the class
\* is CL.TE when only the CL.TE verdict was vulnerable, TE.CL when only the
\* TE.CL verdict was, CL.TE+TE.CL when both were and unset when neither;
\* the confidence, when set, is HIGH or MEDIUM.
C26_ResultFieldsAgree ==
    /\ \A k \in 1..Len(all_results) :
          LET r == all_results[k]
          IN  /\ r.vulnerable <=> r.vuln_type # NoStr
              /\ r.vulnerable <=> r.confidence # NoStr
              /\ r.confidence \in {NoStr, "HIGH", "MEDIUM"}
    /\ Returned =>
          all_results[1].vuln_type =
              CASE FoundClasses = {"clte"} -> "CL.TE"
                [] FoundClasses = {"tecl"} -> "TE.CL"
                [] FoundClasses = {"clte", "tecl"} -> "CL.TE+TE.CL"
                [] OTHER -> NoStr

\* A target returned with both classes found.
C26_Witness ==
    /\ Returned
    /\ FoundClasses = {"clte", "tecl"}
    /\ all_results[1].vuln_type = "CL.TE+TE.CL"
    /\ all_results[1].vulnerable

\* The verdict in hand is a vulnerable one.
Hit == verdict # None /\ Get(verdict).vulnerable

\* A vulnerable CL.TE verdict sets the confidence of the result; after the
\* TE.CL classifier the result returned keeps that confidence when CL.TE
\* was found, and takes the one of the TE.CL verdict only when it was not.
C27_Step ==
    /\ pc = "clte_decided" /\ pc' = "tecl" /\ Hit =>
          Get(results').confidence = Get(verdict).confidence
    /\ pc = "tecl_decided" /\ pc' = "loop" =>
          LET r == all_results'[Len(all_results')]
          IN  /\ Get(results).vulnerable =>
                    r.confidence = Get(results).confidence
              /\ ~Get(results).vulnerable /\ Hit =>
                    r.confidence = Get(verdict).confidence
              /\ ~Get(results).vulnerable /\ ~Hit => r.confidence = NoStr

\* C27: when both classes are found vulnerable the confidence of the result
\* is the confidence of the CL.TE verdict, whatever the TE.CL verdict says;
\* the TE.CL confidence is recorded only when CL.TE was not found.
C27_ClteConfidenceKept == [][C27_Step]_vars

\* A target returned with both classes found, MEDIUM for CL.TE and HIGH for
\* TE.CL: its confidence is MEDIUM.
C27_Witness ==
    /\ Returned
    /\ all_results[1].vuln_type = "CL.TE+TE.CL"
    /\ all_results[1].confidence = "MEDIUM"
    /\ all_results[1].details[1] = <<"Timing difference">>
    /\ all_results[1].details[3] = <<"Timeout ratio">>

\* ------------------------------------------------ C28: the probe samples
\* The probe samples of a run are as many as its probes that ended OK or
\* TIMEOUT, and the timeout count is the number of those that ended
\* TIMEOUT.
C28_Counts ==
    Classifying =>
        /\ Len(attack_timings) = obs.ok + obs.timeout
        /\ timeout_count = obs.timeout
        /\ timeout_count <= Len(attack_timings)

\* A probe that ended TIMEOUT adds the configured timeout to the samples,
\* one that ended OK adds a measured time, any other adds nothing.
C28_Step ==
    pc \in {"clte", "tecl"} /\ phase = "probe" /\ phase' = "normal" =>
        /\ obs'.timeout = obs.timeout + 1 =>
              attack_timings' = Append(attack_timings, Timeout)
        /\ obs'.ok = obs.ok + 1 =>
              \E e \in 1..MaxLat : attack_timings' = Append(attack_timings, e)
        /\ obs'.failed = obs.failed + 1 => attack_timings' = attack_timings

\* C28: in a classifier run each probe with outcome TIMEOUT contributes
\* the configured timeout to the probe samples, each OK probe its measured
\* time and each REFUSED or ERROR probe nothing, so the samples are as many
\* as the OK and TIMEOUT probes and the timeout count never exceeds them.
C28_TimeoutCountsAsTimeout == []C28_Counts /\ [][C28_Step]_vars

\* A run with one probe answered after a second, one timed out after a
\* second of waiting for the answer, and one failed: its samples are 1 and
\* the timeout of 10.
C28_Witness ==
    /\ JustDecided
    /\ obs.ok = 1 /\ obs.timeout = 1 /\ obs.failed = 1
    /\ attack_timings \in {<<1, Timeout>>, <<Timeout, 1>>}
    /\ timeout_count = 1

\* ------------------------------------------- C29: the normal reference
\* The mean the decision compares the probes with: the mean of the normal
\* samples of the run when a normal request of the run ended OK, the mean
\* of the baseline otherwise.
Reference ==
    IF obs.normal_ok > 0 THEN Mean(normal_timings) ELSE Get(baseline).mean

\* The normal samples of a run are as many as its normal requests that
\* ended OK, the classifiers run on a baseline, and without two timeouts
\* the verdict is the comparison of the probe mean with the reference and
\* the standard deviation of the baseline.
C29_Decision ==
    /\ Classifying =>
          /\ baseline # None
          /\ Len(normal_timings) = obs.normal_ok
          /\ Get(baseline).mean = Mean(Get(baseline).timings)
    /\ JustDecided /\ Len(attack_timings) >= 2 /\ obs.timeout < 2 =>
          (IsVerdict("MEDIUM") <=>
              /\ ExceedsByStdev(Mean(attack_timings), Reference,
                                Get(baseline).stdev, 2)
              /\ ExceedsTimes(Mean(attack_timings), Reference, 2))

\* A normal request that ended OK adds its time to the normal samples, any
\* other adds nothing; from the first request of the CL.TE classifier to
\* the return of the TE.CL classifier the baseline stays as it is.
C29_Step ==
    /\ pc \in {"clte", "tecl"} /\ phase = "normal" /\ phase' = "probe" =>
          /\ obs'.normal_ok = obs.normal_ok + 1 =>
                \E e \in 1..MaxLat :
                    normal_timings' = Append(normal_timings, e)
          /\ obs'.normal_ok = obs.normal_ok =>
                normal_timings' = normal_timings
    /\ Classifying /\ pc' \in {"clte", "clte_decided", "tecl", "tecl_decided"}
          => baseline' = baseline

\* C29: the normal mean of a decision is the mean of the interleaved normal
\* requests of the run that ended OK, and the baseline mean exactly when
\* none of them did; the threshold always takes the baseline standard
\* deviation, and no classifier changes the baseline.
C29_NormalMeanOfRunOrBaseline == []C29_Decision /\ [][C29_Step]_vars

\* The TE.CL run found MEDIUM against the mean of the baseline, taken from
\* 5 samples: none of its normal requests ended OK, after a CL.TE run that
\* ended with a vulnerable verdict.
C29_Witness ==
    /\ pc = "tecl_decided"
    /\ obs.normal_ok = 0
    /\ normal_timings = <<>>
    /\ Len(Get(baseline).timings) = 5
    /\ \E k \in DOMAIN log : log[k] = <<"clte", "write">>
    /\ IsVerdict("MEDIUM")
====
